---- MODULE Spec2Model ----
(***************************************************************************)
(* Model of the Telegram AI Image Bot workflow: the App component's state  *)
(* and handlers (src/App.tsx), the Gemini generation client                *)
(* (src/services/geminiService.ts) and the Telegram dispatch client        *)
(* (services/telegramService).                                             *)
(*                                                                         *)
(* Strings whose characters the code inspects (data URIs, MIME types,      *)
(* base64 payloads) are sequences of one-character strings; strings that   *)
(* are only stored, compared or concatenated are TLA+ strings.             *)
(* A nullable value is <<>> (null) or <<v>>.                               *)
(***************************************************************************)
EXTENDS Bags, FiniteSets, Integers, Sequences, TLC

VARIABLES
  appState,        \* "loading" | "mounted" | "crashed": module evaluation and first render
  env,             \* process.env: [API_KEY, VITE_API_KEY], "" when not set
  botToken,        \* useLocalStorage('telegramBotToken', '')
  chatId,          \* useLocalStorage('telegramChatId', '')
  prompt,          \* useState('')
  uploadedImage,   \* useState(null): <<>> or <<[base64, name, mimeType]>>
  generatedImage,  \* useState(null): <<>> or <<data URI>>
  isLoading,       \* useState(false)
  status,          \* useState(null): <<>> or <<[type, message]>>
  showConfig,      \* useState(true)
  isApiKeyMissing, \* useState(false)
  genPending,      \* bag of generateContent requests awaiting the service's answer
  sendPending,     \* bag of sendPhoto POSTs awaiting the HTTP exchange
  readPending,     \* bag of files whose fileToBase64 read has not settled
  last             \* observation of the last step: the action invoked and the service call it made

vars == <<appState, env, botToken, chatId, prompt, uploadedImage, generatedImage,
          isLoading, status, showConfig, isApiKeyMissing,
          genPending, sendPending, readPending, last>>

(***************************************************************************)
(* Bounds                                                                  *)
(***************************************************************************)
MaxInFlight == 1   \* remote calls (generate/edit/send) awaiting an answer at once
MaxReads == 1      \* file reads awaiting completion at once
MaxCandidates == 2 \* candidates of a response given to extractImage on its own
MaxParts == 2      \* parts of one such candidate
MaxMimeLen == 3    \* characters of a MIME type put through the data URI round trip
MaxPayloadLen == 2 \* characters of a base64 payload put through the round trip

(***************************************************************************)
(* Nullable values and JavaScript string primitives                        *)
(***************************************************************************)
Null == <<>>
Some(v) == <<v>>

\* the value of an out-of-range array element; no character string equals it
Undefined == <<"undefined">>

\* String.prototype.indexOf(c): 0-based index of the first c, -1 when absent
IndexOf(s, c) ==
  IF \E i \in 1..Len(s) : s[i] = c
  THEN (CHOOSE i \in 1..Len(s) : s[i] = c /\ \A j \in 1..(i - 1) : s[j] # c) - 1
  ELSE -1

Clamp(n, len) == IF n < 0 THEN 0 ELSE IF n > len THEN len ELSE n

\* String.prototype.substring(a, b): arguments clamped to [0, length] and swapped when a > b
Substring(s, a, b) ==
  LET ca == Clamp(a, Len(s))
      cb == Clamp(b, Len(s))
      lo == IF ca < cb THEN ca ELSE cb
      hi == IF ca < cb THEN cb ELSE ca
  IN  SubSeq(s, lo + 1, hi)

\* String.prototype.split(c): the pieces of s between the occurrences of c
RECURSIVE Split(_, _)
Split(s, c) ==
  LET i == IndexOf(s, c)
  IN  IF i = -1 THEN <<s>>
      ELSE <<SubSeq(s, 1, i)>> \o Split(SubSeq(s, i + 2, Len(s)), c)

\* array element access a[i], 0-based, undefined when out of range
At(a, i) == IF i + 1 \in 1..Len(a) THEN a[i + 1] ELSE Undefined

DataScheme == <<"d", "a", "t", "a", ":">>
Base64Marker == <<";", "b", "a", "s", "e", "6", "4", ",">>

\* the template literal `data:${mimeType};base64,${data}`
DataUri(mimeType, data) == DataScheme \o mimeType \o Base64Marker \o data

(***************************************************************************)
(* Inputs                                                                  *)
(***************************************************************************)
Png == <<"i", "/", "p">>
Jpg == <<"i", "/", "j">>
PayloadA == <<"Q", "Q", "=">>
PayloadB == <<"e", "g">>

\* values of an environment variable: not set, or set
EnvValues == {"", "key"}
Tokens == {"", "T1"}
ChatIds == {"", "C1"}
Prompts == {"", "fox"}

\* files the file input can yield
Files == { [name |-> "a.png", type |-> Png, payload |-> PayloadA],
           [name |-> "b.jpg", type |-> Jpg, payload |-> PayloadB] }

(***************************************************************************)
(* Generation client: src/services/geminiService.ts                        *)
(***************************************************************************)
model == "gemini-2.5-flash-image"

KeyMissingMessage == "Google AI API Key is not configured. Please set the API_KEY environment variable in your deployment settings."
NoImageMessage == "No image data found in Gemini response"
\* reading .content of candidates[0] when the response has no candidate
TypeErrorMessage == "Cannot read properties of undefined (reading 'content')"

\* a module that checks the key when it is imported and throws without it
GeminiModuleInitEager(e) == e.API_KEY # ""

\* what evaluating the module at import does with the key: nothing; TRUE = the import succeeds
GeminiModuleInit(e) == TRUE

\* getAiClient: throws when process.env.API_KEY is falsy, else returns a client
getAiClient(e) ==
  IF e.API_KEY = ""
  THEN [threw |-> TRUE, error |-> KeyMissingMessage]
  ELSE [threw |-> FALSE, error |-> ""]

\* one element of contents.parts / content.parts
TextPart(t) == [kind |-> "text", text |-> t, data |-> <<>>, mimeType |-> <<>>]
InlinePart(d, m) == [kind |-> "inlineData", text |-> "", data |-> d, mimeType |-> m]

GenerateContentRequest(parts) ==
  [model |-> model, parts |-> parts, responseModalities |-> <<"IMAGE">>]

\* extractImage: the data URI of the first part of candidates[0] with inlineData
extractImage(response) ==
  IF Len(response.candidates) = 0
  THEN [threw |-> TRUE, error |-> TypeErrorMessage, value |-> <<>>]
  ELSE LET parts == response.candidates[1].parts
           hits == {i \in 1..Len(parts) : parts[i].kind = "inlineData"}
       IN  IF hits = {}
           THEN [threw |-> TRUE, error |-> NoImageMessage, value |-> <<>>]
           ELSE LET first == CHOOSE i \in hits : \A j \in hits : i <= j
                IN  [threw |-> FALSE, error |-> "",
                     value |-> DataUri(parts[first].mimeType, parts[first].data)]

\* generateImage up to its await: the key check, then the text-only request
generateImage(e, p) ==
  LET ai == getAiClient(e)
  IN  IF ai.threw
      THEN [threw |-> TRUE, error |-> ai.error, request |-> Null]
      ELSE [threw |-> FALSE, error |-> "",
            request |-> Some(GenerateContentRequest(<<TextPart(p)>>))]

\* an editImage that sends the whole data URI as the payload
editImageUnsplit(e, p, imageBase64, mimeType) ==
  LET ai == getAiClient(e)
  IN  IF ai.threw
      THEN [threw |-> TRUE, error |-> ai.error, request |-> Null]
      ELSE [threw |-> FALSE, error |-> "",
            request |-> Some(GenerateContentRequest(<<InlinePart(imageBase64, mimeType), TextPart(p)>>))]

\* editImage up to its await: the key check, the payload after the first comma, the request
editImage(e, p, imageBase64, mimeType) ==
  LET ai == getAiClient(e)
      base64Data == At(Split(imageBase64, ","), 1)
  IN  IF ai.threw
      THEN [threw |-> TRUE, error |-> ai.error, request |-> Null]
      ELSE [threw |-> FALSE, error |-> "",
            request |-> Some(GenerateContentRequest(<<InlinePart(base64Data, mimeType), TextPart(p)>>))]

\* answers of the generation service: a rejection (transport or service error) or a response
ServiceErrorMessage == "503 Service Unavailable"
Responses ==
  { [candidates |-> <<>>],
    [candidates |-> <<[parts |-> <<TextPart("hi")>>]>>],
    [candidates |-> <<[parts |-> <<TextPart("hi"), InlinePart(PayloadA, Png), InlinePart(PayloadB, Jpg)>>]>>],
    [candidates |-> <<[parts |-> <<TextPart("hi")>>], [parts |-> <<InlinePart(PayloadA, Png)>>]>>] }
GenOutcomes ==
  {[rejected |-> TRUE, error |-> ServiceErrorMessage, response |-> [candidates |-> <<>>]]}
    \cup {[rejected |-> FALSE, error |-> "", response |-> r] : r \in Responses}

\* generateImage / editImage after the await: the rejection, or extractImage's result
GenerateResult(outcome) ==
  IF outcome.rejected
  THEN [threw |-> TRUE, error |-> outcome.error, value |-> <<>>]
  ELSE extractImage(outcome.response)

(***************************************************************************)
(* Binary transcoder (utils/fileUtils) and dispatch client                 *)
(* (services/telegramService)                                              *)
(***************************************************************************)
\* fileToBase64: the file as a data URI together with its MIME type
fileToBase64(file) == [base64 |-> DataUri(file.type, file.payload), mimeType |-> file.type]

\* base64ToBlob: the payload after the comma, typed with the given MIME type
base64ToBlob(imageBase64, mimeType) ==
  [bytes |-> At(Split(imageBase64, ","), 1), type |-> mimeType]

GenericSendMessage == "Telegram API request failed"
FetchErrorMessage == "Failed to fetch"

\* a sendPhoto that starts the MIME type at the colon
sendPhotoFromColon(token, chat, imageBase64, caption) ==
  LET mimeType == Substring(imageBase64, IndexOf(imageBase64, ":"), IndexOf(imageBase64, ";"))
      photoBlob == base64ToBlob(imageBase64, mimeType)
  IN  [method |-> "POST",
       apiUrl |-> <<"https://api.telegram.org/bot", token, "/sendPhoto">>,
       chat_id |-> chat, photo |-> photoBlob, filename |-> "generated-image.png",
       caption |-> caption]

\* sendPhoto up to its await: the multipart POST it issues
sendPhoto(token, chat, imageBase64, caption) ==
  LET mimeType == Substring(imageBase64, IndexOf(imageBase64, ":") + 1, IndexOf(imageBase64, ";"))
      photoBlob == base64ToBlob(imageBase64, mimeType)
  IN  [method |-> "POST",
       apiUrl |-> <<"https://api.telegram.org/bot", token, "/sendPhoto">>,
       chat_id |-> chat, photo |-> photoBlob, filename |-> "generated-image.png",
       caption |-> caption]

\* answers of the messaging service: the fetch rejects, or an HTTP response with a JSON body
SendOutcomes ==
  { [rejected |-> TRUE, ok |-> FALSE, description |-> ""],
    [rejected |-> FALSE, ok |-> TRUE, description |-> ""],
    [rejected |-> FALSE, ok |-> FALSE, description |-> "chat not found"],
    [rejected |-> FALSE, ok |-> FALSE, description |-> ""] }

\* a sendPhoto that ignores the description of the error body
SendResultGeneric(outcome) ==
  IF outcome.rejected THEN [threw |-> TRUE, error |-> FetchErrorMessage]
  ELSE IF ~outcome.ok THEN [threw |-> TRUE, error |-> GenericSendMessage]
       ELSE [threw |-> FALSE, error |-> ""]

\* sendPhoto after the await: the error it throws, if any
SendResult(outcome) ==
  IF outcome.rejected THEN [threw |-> TRUE, error |-> FetchErrorMessage]
  ELSE IF ~outcome.ok
       THEN [threw |-> TRUE,
             error |-> IF outcome.description # "" THEN outcome.description ELSE GenericSendMessage]
       ELSE [threw |-> FALSE, error |-> ""]

(***************************************************************************)
(* Workflow controller: src/App.tsx                                        *)
(***************************************************************************)
ErrorStatus(m) == Some([type |-> "error", message |-> m])
SuccessStatus(m) == Some([type |-> "success", message |-> m])

PromptRequiredMessage == "Please enter a prompt."
ReadFailedMessage == "Failed to read the image file."
NoImageToSendMessage == "No image to send."
CredentialsRequiredMessage == "Telegram Bot Token and Chat ID are required."
GenerateFailedPrefix == "An error occurred while generating the image: "
SendFailedPrefix == "Failed to send image to Telegram: "
SentMessage == "Image sent to Telegram successfully!"

\* the observation of a step of handleGenerate or handleSend: the handler that ran, the service
\* function it called with its arguments, and the network request that call issued;
\* every other step leaves NoObservation
NoCall == Null
Observe(op, call, request) == [op |-> op, call |-> call, request |-> request]
NoObservation == Observe("none", NoCall, Null)
Call(fn, args) == Some([fn |-> fn, args |-> args])

InFlight == BagCardinality(genPending) + BagCardinality(sendPending)

Init ==
  /\ appState = "loading"
  /\ env \in [API_KEY : EnvValues, VITE_API_KEY : EnvValues]
  /\ botToken \in Tokens
  /\ chatId \in ChatIds
  /\ prompt = ""
  /\ uploadedImage = Null
  /\ generatedImage = Null
  /\ isLoading = FALSE
  /\ status = Null
  /\ showConfig = TRUE
  /\ isApiKeyMissing = FALSE
  /\ genPending = EmptyBag
  /\ sendPending = EmptyBag
  /\ readPending = EmptyBag
  /\ last = NoObservation

\* the effect run once after the first render: the proactive VITE_API_KEY check
ApiKeyEffect(e) == IF e.VITE_API_KEY = "" THEN TRUE ELSE FALSE

\* the modules are evaluated, App renders for the first time and its effect runs
AppLoad ==
  /\ appState = "loading"
  /\ IF GeminiModuleInit(env)
     THEN /\ appState' = "mounted"
          /\ isApiKeyMissing' = ApiKeyEffect(env)
     ELSE /\ appState' = "crashed"
          /\ UNCHANGED isApiKeyMissing
  /\ last' = NoObservation
  /\ UNCHANGED <<env, botToken, chatId, prompt, uploadedImage, generatedImage, isLoading,
                 status, showConfig, genPending, sendPending, readPending>>

SetBotToken(v) ==
  /\ appState = "mounted"
  /\ botToken' = v
  /\ last' = NoObservation
  /\ UNCHANGED <<appState, env, chatId, prompt, uploadedImage, generatedImage, isLoading,
                 status, showConfig, isApiKeyMissing, genPending, sendPending, readPending>>

SetChatId(v) ==
  /\ appState = "mounted"
  /\ chatId' = v
  /\ last' = NoObservation
  /\ UNCHANGED <<appState, env, botToken, prompt, uploadedImage, generatedImage, isLoading,
                 status, showConfig, isApiKeyMissing, genPending, sendPending, readPending>>

SetPrompt(v) ==
  /\ appState = "mounted"
  /\ prompt' = v
  /\ last' = NoObservation
  /\ UNCHANGED <<appState, env, botToken, chatId, uploadedImage, generatedImage, isLoading,
                 status, showConfig, isApiKeyMissing, genPending, sendPending, readPending>>

\* the Configuration header button
ToggleConfig ==
  /\ appState = "mounted"
  /\ showConfig' = ~showConfig
  /\ last' = NoObservation
  /\ UNCHANGED <<appState, env, botToken, chatId, prompt, uploadedImage, generatedImage,
                 isLoading, status, isApiKeyMissing, genPending, sendPending, readPending>>

\* handleFileChange up to its await: the selected file, if any, starts being read
HandleFileChange(files) ==
  /\ appState = "mounted"
  /\ IF files # <<>>
     THEN /\ BagCardinality(readPending) < MaxReads
          /\ readPending' = readPending (+) SetToBag({files[1]})
          /\ last' = NoObservation
     ELSE /\ UNCHANGED readPending
          /\ last' = NoObservation
  /\ UNCHANGED <<appState, env, botToken, chatId, prompt, uploadedImage, generatedImage,
                 isLoading, status, showConfig, isApiKeyMissing, genPending, sendPending>>

\* a successful upload that keeps the artifact
ArtifactAfterUploadKept(g) == g

\* setGeneratedImage(null) after a successful read
ArtifactAfterUpload(g) == Null

\* a catch block that swallows the read error
ReadFailureSilent == Null

\* catch: setStatus({ type: 'error', message: 'Failed to read the image file.' })
ReadFailure == ErrorStatus(ReadFailedMessage)

\* handleFileChange after its await: the read succeeded (source set, artifact cleared)
\* or failed, e.g. on a revoked or invalid handle (error status)
FileReadSettle(file, readable) ==
  /\ appState = "mounted"
  /\ BagIn(file, readPending)
  /\ readPending' = readPending (-) SetToBag({file})
  /\ IF readable
     THEN LET r == fileToBase64(file)
          IN  /\ uploadedImage' = Some([base64 |-> r.base64, name |-> file.name, mimeType |-> r.mimeType])
              /\ generatedImage' = ArtifactAfterUpload(generatedImage)
              /\ UNCHANGED status
              /\ last' = NoObservation
     ELSE /\ status' = ReadFailure
          /\ UNCHANGED <<uploadedImage, generatedImage>>
          /\ last' = NoObservation
  /\ UNCHANGED <<appState, env, botToken, chatId, prompt, isLoading, showConfig,
                 isApiKeyMissing, genPending, sendPending>>

\* the X button on the "Image to edit" preview, rendered while uploadedImage is set
RemoveUploadedImage ==
  /\ appState = "mounted"
  /\ uploadedImage # Null
  /\ uploadedImage' = Null
  /\ last' = NoObservation
  /\ UNCHANGED <<appState, env, botToken, chatId, prompt, generatedImage, isLoading, status,
                 showConfig, isApiKeyMissing, genPending, sendPending, readPending>>

\* a handler that flips the banner instead of clearing it
DismissedToggling(st) == IF st = Null THEN ErrorStatus("") ELSE Null

\* setStatus(null)
Dismissed(st) == Null

\* the X button of the status banner, rendered while status is set
DismissStatus ==
  /\ appState = "mounted"
  /\ status # Null
  /\ status' = Dismissed(status)
  /\ last' = Observe("dismiss", NoCall, Null)
  /\ UNCHANGED <<appState, env, botToken, chatId, prompt, uploadedImage, generatedImage,
                 isLoading, showConfig, isApiKeyMissing, genPending, sendPending, readPending>>

\* the service call handleGenerate makes: editImage when uploadedImage is set, else generateImage
GenerateCall(p, image) ==
  IF image # Null
  THEN Call("editImage", <<p, image[1].base64, image[1].mimeType>>)
  ELSE Call("generateImage", <<p>>)

\* that call run up to its await
GenerateStart(e, p, image) ==
  IF image # Null
  THEN editImage(e, p, image[1].base64, image[1].mimeType)
  ELSE generateImage(e, p)

\* a prompt check that accepts the empty prompt
PromptMissingNever(p) == FALSE

\* !prompt
PromptMissing(p) == p = ""

\* a generation attempt that keeps the prior artifact
ArtifactAtGenerateKept(g) == g

\* setGeneratedImage(null) at the start of an attempt
ArtifactAtGenerate(g) == Null

\* a failure status without the upstream message
GenerateFailureBare(error) == ErrorStatus(GenerateFailedPrefix)

\* the catch block of handleGenerate
GenerateFailure(error) == ErrorStatus(GenerateFailedPrefix \o error)

\* a handleGenerate that also clears the source image
GenerateFrameClearingSource ==
  /\ uploadedImage' = Null
  /\ UNCHANGED <<appState, env, botToken, chatId, prompt, showConfig,
                 isApiKeyMissing, sendPending, readPending>>

\* the state handleGenerate never assigns, before and after its await
GenerateFrame ==
  UNCHANGED <<appState, env, botToken, chatId, prompt, uploadedImage, showConfig,
              isApiKeyMissing, sendPending, readPending>>

\* handleGenerate up to its await (or to its end when it returns or throws before awaiting)
HandleGenerate ==
  /\ appState = "mounted"
  /\ IF PromptMissing(prompt)
     THEN /\ status' = ErrorStatus(PromptRequiredMessage)
          /\ last' = Observe("handleGenerate", NoCall, Null)
          /\ UNCHANGED <<isLoading, generatedImage, genPending>>
     ELSE LET started == GenerateStart(env, prompt, uploadedImage)
          IN  /\ generatedImage' = ArtifactAtGenerate(generatedImage)
              /\ last' = Observe("handleGenerate", GenerateCall(prompt, uploadedImage), started.request)
              /\ IF started.threw
                 THEN /\ status' = GenerateFailure(started.error)
                      /\ isLoading' = FALSE
                      /\ UNCHANGED genPending
                 ELSE /\ status' = Null
                      /\ isLoading' = TRUE
                      /\ genPending' = genPending (+) SetToBag({started.request[1]})
  /\ GenerateFrame

\* a handler whose isLoading is reset on the success path only
LoadingAfterSettleNoFinally(threw, loading) == IF threw THEN loading ELSE FALSE

\* finally { setIsLoading(false) }: runs whether the awaited call returned or threw
LoadingAfterSettle(threw, loading) == FALSE

\* handleGenerate after its await: the service answered request with outcome
GenerateSettle(request, outcome) ==
  /\ appState = "mounted"
  /\ BagIn(request, genPending)
  /\ genPending' = genPending (-) SetToBag({request})
  /\ LET result == GenerateResult(outcome)
     IN  IF result.threw
         THEN /\ status' = GenerateFailure(result.error)
              /\ UNCHANGED generatedImage
              /\ isLoading' = LoadingAfterSettle(TRUE, isLoading)
              /\ last' = NoObservation
         ELSE /\ generatedImage' = Some(result.value)
              /\ UNCHANGED status
              /\ isLoading' = LoadingAfterSettle(FALSE, isLoading)
              /\ last' = NoObservation
  /\ GenerateFrame

\* a validation that accepts one missing credential
SendValidationEither(g, token, chat) ==
  IF g = Null \/ g = Some(<<>>) THEN "noImage"
  ELSE IF token = "" /\ chat = "" THEN "noCredentials"
  ELSE "ok"

\* a validation that looks at the credentials first
SendValidationCredentialsFirst(g, token, chat) ==
  IF token = "" \/ chat = "" THEN "noCredentials"
  ELSE IF g = Null \/ g = Some(<<>>) THEN "noImage"
  ELSE "ok"

\* the two early returns of handleSend: !generatedImage, then !botToken || !chatId
SendValidation(g, token, chat) ==
  IF g = Null \/ g = Some(<<>>) THEN "noImage"
  ELSE IF token = "" \/ chat = "" THEN "noCredentials"
  ELSE "ok"

\* a handleSend that drops the artifact
SendFrameClearingArtifact ==
  /\ generatedImage' = Null
  /\ UNCHANGED <<appState, env, botToken, chatId, prompt, uploadedImage,
                 isApiKeyMissing, genPending, readPending>>

\* the state handleSend never assigns, before and after its await
SendFrame ==
  UNCHANGED <<appState, env, botToken, chatId, prompt, uploadedImage, generatedImage,
              isApiKeyMissing, genPending, readPending>>

\* handleSend up to its await (or to its end when validation fails)
HandleSend ==
  /\ appState = "mounted"
  /\ IF SendValidation(generatedImage, botToken, chatId) = "noImage"
     THEN /\ status' = ErrorStatus(NoImageToSendMessage)
          /\ last' = Observe("handleSend", NoCall, Null)
          /\ UNCHANGED <<showConfig, isLoading, sendPending>>
     ELSE IF SendValidation(generatedImage, botToken, chatId) = "noCredentials"
     THEN /\ status' = ErrorStatus(CredentialsRequiredMessage)
          /\ showConfig' = TRUE
          /\ last' = Observe("handleSend", NoCall, Null)
          /\ UNCHANGED <<isLoading, sendPending>>
     ELSE LET request == sendPhoto(botToken, chatId, generatedImage[1], prompt)
          IN  /\ isLoading' = TRUE
              /\ status' = Null
              /\ sendPending' = sendPending (+) SetToBag({request})
              /\ last' = Observe("handleSend",
                                 Call("sendPhoto", <<botToken, chatId, generatedImage[1], prompt>>),
                                 Some(request))
              /\ UNCHANGED showConfig
  /\ SendFrame

\* a handleSend that posts the photo again when the exchange fails
SendSettleRetrying(request, outcome) ==
  /\ appState = "mounted"
  /\ BagIn(request, sendPending)
  /\ LET result == SendResult(outcome)
     IN  IF result.threw
         THEN /\ UNCHANGED <<sendPending, status, isLoading>>
              /\ last' = NoObservation
         ELSE /\ sendPending' = sendPending (-) SetToBag({request})
              /\ status' = SuccessStatus(SentMessage)
              /\ isLoading' = FALSE
              /\ last' = NoObservation
  /\ UNCHANGED showConfig
  /\ SendFrame

\* handleSend after its await: the HTTP exchange of request ended with outcome
SendSettle(request, outcome) ==
  /\ appState = "mounted"
  /\ BagIn(request, sendPending)
  /\ sendPending' = sendPending (-) SetToBag({request})
  /\ LET result == SendResult(outcome)
     IN  IF result.threw
         THEN /\ status' = ErrorStatus(SendFailedPrefix \o result.error)
              /\ isLoading' = LoadingAfterSettle(TRUE, isLoading)
              /\ last' = NoObservation
         ELSE /\ status' = SuccessStatus(SentMessage)
              /\ isLoading' = LoadingAfterSettle(FALSE, isLoading)
              /\ last' = NoObservation
  /\ UNCHANGED showConfig
  /\ SendFrame

\* a Generate button that stays enabled while a call is in flight
GenerateEnabledWhileLoading == ~(prompt = "" \/ isApiKeyMissing)

\* the Generate button: disabled={isLoading || !prompt || isApiKeyMissing}
GenerateEnabled == ~(isLoading \/ prompt = "" \/ isApiKeyMissing)
ClickGenerate == GenerateEnabled /\ HandleGenerate

\* the Send button: rendered while generatedImage is set, disabled={isLoading}
SendEnabled == generatedImage # Null /\ generatedImage # Some(<<>>) /\ ~isLoading
ClickSend == SendEnabled /\ HandleSend

\* what the user and the environment can do in both specifications
Inputs ==
  \/ AppLoad
  \/ \E v \in Tokens : SetBotToken(v)
  \/ \E v \in ChatIds : SetChatId(v)
  \/ \E v \in Prompts : SetPrompt(v)
  \/ ToggleConfig
  \/ \E f \in Files : HandleFileChange(<<f>>)
  \/ HandleFileChange(<<>>)
  \/ \E f \in Files, ok \in BOOLEAN : FileReadSettle(f, ok)
  \/ RemoveUploadedImage
  \/ DismissStatus
  \/ \E r \in BagToSet(genPending), o \in GenOutcomes : GenerateSettle(r, o)
  \/ \E r \in BagToSet(sendPending), o \in SendOutcomes : SendSettle(r, o)

\* a step that leaves at most MaxInFlight remote calls awaiting their answer
WithinBound == BagCardinality(genPending') + BagCardinality(sendPending') <= MaxInFlight

\* the controller: its two actions can be invoked in any state
Next == Inputs \/ (HandleGenerate /\ WithinBound) \/ (HandleSend /\ WithinBound)
Spec == Init /\ [][Next]_vars

\* the rendered application: the two actions are invoked through their buttons
NextUI == Inputs \/ ClickGenerate \/ ClickSend
SpecUI == Init /\ [][NextUI]_vars

\* a remote call in flight gets its answer: the promise settles and the handler resumes
CallCompletes ==
  \/ \E r \in BagToSet(genPending), o \in GenOutcomes : GenerateSettle(r, o)
  \/ \E r \in BagToSet(sendPending), o \in SendOutcomes : SendSettle(r, o)

\* the rendered application when every remote call eventually completes
SpecLive == Init /\ [][NextUI]_vars /\ WF_vars(CallCompletes)

(***************************************************************************)
(* The extractor and the data URI parsers on their own                     *)
(***************************************************************************)
\* the sequences over S of length at most n
SeqsUpTo(S, n) == UNION {[1..k -> S] : k \in 0..n}

\* responses of up to MaxCandidates candidates of up to MaxParts parts each
PartChoices == {TextPart("hi"), InlinePart(PayloadA, Png), InlinePart(PayloadB, Jpg)}
ProbeResponses ==
  {[candidates |-> cs] :
     cs \in SeqsUpTo({[parts |-> ps] : ps \in SeqsUpTo(PartChoices, MaxParts)}, MaxCandidates)}

\* MIME types without parameters and base64 payloads
MimeChars == {"i", "/", "+"}
Base64Chars == {"Q", "=", "/", "+"}
ProbeMimes == SeqsUpTo(MimeChars, MaxMimeLen) \ {<<>>}
ProbePayloads == SeqsUpTo(Base64Chars, MaxPayloadLen)

ProbeEnv == [API_KEY |-> "key", VITE_API_KEY |-> "key"]

InitFn ==
  /\ Init
  /\ env = ProbeEnv
  /\ botToken = "T1"
  /\ chatId = "C1"

FnFrame ==
  UNCHANGED <<appState, env, botToken, chatId, prompt, uploadedImage, generatedImage,
              isLoading, status, showConfig, isApiKeyMissing,
              genPending, sendPending, readPending>>

\* extractImage applied to response
ExtractImageStep(response) ==
  /\ last' = Observe("extractImage", Call("extractImage", <<response>>),
                     Some(extractImage(response)))
  /\ FnFrame

\* the artifact extractImage builds from one inline part (data, mimeType), read back by
\* sendPhoto (MIME type and blob) and by editImage (payload)
RoundTripStep(mimeType, data) ==
  LET artifact == extractImage([candidates |-> <<[parts |-> <<InlinePart(data, mimeType)>>]>>]).value
      post == sendPhoto(botToken, chatId, artifact, "fox")
      edit == editImage(env, "fox", artifact, mimeType)
  IN  /\ last' = Observe("roundTrip", Call("extractImage", <<mimeType, data>>),
                         Some([artifact |-> artifact,
                               sentType |-> post.photo.type,
                               editData |-> edit.request[1].parts[1].data]))
      /\ FnFrame

\* one application per behaviour
NextFn ==
  \/ last = NoObservation /\ \E r \in ProbeResponses : ExtractImageStep(r)
  \/ last = NoObservation /\ \E m \in ProbeMimes, p \in ProbePayloads : RoundTripStep(m, p)
SpecFn == InitFn /\ [][NextFn]_vars

(***************************************************************************)
(* Properties                                                              *)
(***************************************************************************)
\* the step just taken ran handleGenerate / handleSend
RanGenerate == last'.op = "handleGenerate"
RanSend == last'.op = "handleSend"

\* C1: handleGenerate invoked with an empty prompt calls neither generateImage nor editImage,
\* issues no request, leaves isLoading and generatedImage as they were, and changes nothing
\* but the status, which reports the missing prompt.
C1_EmptyPromptOnlyReports ==
  [][(prompt = "" /\ RanGenerate) =>
       /\ last'.call = NoCall
       /\ last'.request = Null
       /\ status' = ErrorStatus(PromptRequiredMessage)
       /\ isLoading' = isLoading
       /\ generatedImage' = generatedImage
       /\ UNCHANGED <<appState, env, botToken, chatId, prompt, uploadedImage, showConfig,
                      isApiKeyMissing, genPending, sendPending, readPending>>]_vars

\* C1 witness: handleGenerate has just rejected an empty prompt although a source image was set
C1_Witness ==
  /\ prompt = ""
  /\ last.op = "handleGenerate"
  /\ last.call = NoCall
  /\ uploadedImage # Null
  /\ status = ErrorStatus(PromptRequiredMessage)

\* the request parts an edit of the file behind source image img must carry for prompt p
EditPartsFor(img, p) ==
  LET f == CHOOSE f \in Files : DataUri(f.type, f.payload) = img.base64
  IN  <<InlinePart(f.payload, f.type), TextPart(p)>>

\* C2: an accepted handleGenerate makes exactly one service call: editImage with the prompt and
\* the source image's data URI and MIME type, whose request carries that image's payload and
\* MIME type, iff a source image is set; otherwise generateImage with a text-only request.
\* It issues at most one request, and exactly one when the key is configured.
C2_DispatchBySource ==
  [][(prompt # "" /\ RanGenerate) =>
       /\ last'.call # NoCall
       /\ IF uploadedImage # Null
          THEN /\ last'.call[1].fn = "editImage"
               /\ last'.call[1].args = <<prompt, uploadedImage[1].base64, uploadedImage[1].mimeType>>
               /\ last'.request # Null =>
                    last'.request[1].parts = EditPartsFor(uploadedImage[1], prompt)
          ELSE /\ last'.call[1].fn = "generateImage"
               /\ last'.call[1].args = <<prompt>>
               /\ last'.request # Null => last'.request[1].parts = <<TextPart(prompt)>>
       /\ genPending' = (IF last'.request # Null
                         THEN genPending (+) SetToBag({last'.request[1]})
                         ELSE genPending)
       /\ (last'.request # Null) = (env.API_KEY # "")
       /\ sendPending' = sendPending]_vars

\* C2 witness: an edit request carrying a source image has just been issued
C2_Witness ==
  /\ last.op = "handleGenerate"
  /\ last.call # NoCall
  /\ last.call[1].fn = "editImage"
  /\ last.request # Null
  /\ uploadedImage # Null
  /\ BagIn(last.request[1], genPending)

\* C3: handleSend invoked with an artifact and an empty bot token or chat id calls no sendPhoto,
\* leaves isLoading as it was, sets the credentials-required error and sets showConfig.
C3_MissingCredentialsRejected ==
  [][(generatedImage # Null /\ (botToken = "" \/ chatId = "") /\ RanSend) =>
       /\ last'.call = NoCall
       /\ last'.request = Null
       /\ sendPending' = sendPending
       /\ isLoading' = isLoading
       /\ status' = ErrorStatus(CredentialsRequiredMessage)
       /\ showConfig' = TRUE]_vars

\* C3 witness: handleSend has just refused to send an artifact because only the chat id is missing
C3_Witness ==
  /\ last.op = "handleSend"
  /\ last.call = NoCall
  /\ generatedImage # Null
  /\ botToken # ""
  /\ chatId = ""
  /\ status = ErrorStatus(CredentialsRequiredMessage)
  /\ showConfig

\* C4: sendPhoto is only called with the existing artifact; with no artifact handleSend, whatever
\* the credentials, sets the no-image error, calls no sendPhoto, leaves isLoading and showConfig.
C4_SendNeedsArtifact ==
  [][RanSend =>
       /\ last'.call # NoCall =>
            /\ generatedImage # Null
            /\ last'.call[1].fn = "sendPhoto"
            /\ last'.call[1].args[3] = generatedImage[1]
       /\ generatedImage = Null =>
            /\ last'.call = NoCall
            /\ last'.request = Null
            /\ sendPending' = sendPending
            /\ status' = ErrorStatus(NoImageToSendMessage)
            /\ isLoading' = isLoading
            /\ showConfig' = showConfig]_vars

\* C4 witness: handleSend has just failed for want of an artifact, with credentials missing
\* and the configuration panel still collapsed
C4_Witness ==
  /\ last.op = "handleSend"
  /\ last.call = NoCall
  /\ generatedImage = Null
  /\ botToken = ""
  /\ ~showConfig
  /\ status = ErrorStatus(NoImageToSendMessage)

\* C5: in the rendered application no artifact is present while a generation request is in
\* flight, and every accepted handleGenerate leaves generatedImage null and, when it issues
\* its request, status null.
C5_NoStaleArtifact ==
  /\ [](genPending # EmptyBag => generatedImage = Null)
  /\ [][(prompt # "" /\ RanGenerate) =>
          /\ generatedImage' = Null
          /\ last'.request # Null => (status' = Null /\ isLoading')]_vars

\* C5 witness: a generation request has just been issued and neither artifact nor status is shown
C5_Witness ==
  /\ last.op = "handleGenerate"
  /\ last.request # Null
  /\ genPending # EmptyBag
  /\ generatedImage = Null
  /\ status = Null
  /\ isLoading

\* the source image a successful read of file f sets
SourceOf(f) == [base64 |-> DataUri(f.type, f.payload), name |-> f.name, mimeType |-> f.type]

\* C6: a successful file read in a state with an artifact leaves the artifact null and the
\* file's image as the source, and changes neither isLoading nor the requests in flight.
C6_UploadClearsArtifact ==
  [][\A f \in Files :
       (generatedImage # Null /\ FileReadSettle(f, TRUE)) =>
          /\ generatedImage' = Null
          /\ uploadedImage' = Some(SourceOf(f))
          /\ isLoading' = isLoading
          /\ genPending' = genPending
          /\ sendPending' = sendPending]_vars

\* C6 witness: an artifact is shown while a file other than the current source is being read
C6_Witness ==
  /\ generatedImage # Null
  /\ uploadedImage # Null
  /\ \E f \in Files : BagIn(f, readPending) /\ SourceOf(f) # uploadedImage[1]

\* C7: removing the source image in a state with an artifact clears the artifact and leaves
\* isLoading as it was.
C7_RemoveClearsArtifact ==
  [][(generatedImage # Null /\ uploadedImage # Null /\ uploadedImage' = Null) =>
       (generatedImage' = Null /\ isLoading' = isLoading)]_vars

\* C8 as claimed: after an accepted handleGenerate no source image is set.
C8_GenerateClearsSource ==
  [][(prompt # "" /\ RanGenerate) => uploadedImage' = Null]_vars

\* C8 as amended: handleGenerate never changes the source image, neither when it is invoked nor
\* when its request settles; the source image changes only by a successful file read or by its
\* removal.
C8_GenerateKeepsSource ==
  /\ [][(RanGenerate \/ genPending' # genPending) => uploadedImage' = uploadedImage]_vars
  /\ [][uploadedImage' # uploadedImage =>
          \/ \E f \in Files : FileReadSettle(f, TRUE)
          \/ RemoveUploadedImage]_vars

\* C8 witness: an edit request has just been issued and its source image is still set
C8_Witness ==
  /\ last.op = "handleGenerate"
  /\ last.call # NoCall
  /\ last.call[1].fn = "editImage"
  /\ uploadedImage # Null
  /\ last.call[1].args[2] = uploadedImage[1].base64

\* an answer of the generation service from which no artifact comes, and the error it ends in
OutcomeFails(o) ==
  \/ o.rejected
  \/ o.response.candidates = <<>>
  \/ \A i \in 1..Len(o.response.candidates[1].parts) :
        o.response.candidates[1].parts[i].kind # "inlineData"
OutcomeError(o) ==
  IF o.rejected THEN o.error
  ELSE IF o.response.candidates = <<>> THEN TypeErrorMessage
  ELSE NoImageMessage

\* C9: in the rendered application a failed generation call, whether it fails before its request
\* (missing key) or by the service's answer (rejection, no image), ends with the error status
\* carrying the upstream message, isLoading false and no artifact; the application stays mounted.
C9_GenerateFailureReported ==
  /\ [][\A r \in BagToSet(genPending), o \in GenOutcomes :
          (OutcomeFails(o) /\ GenerateSettle(r, o)) =>
             /\ status' = ErrorStatus(GenerateFailedPrefix \o OutcomeError(o))
             /\ isLoading' = FALSE
             /\ generatedImage' = Null
             /\ appState' = "mounted"]_vars
  /\ [][(prompt # "" /\ RanGenerate /\ last'.request = Null) =>
          /\ status' = ErrorStatus(GenerateFailedPrefix \o KeyMissingMessage)
          /\ isLoading' = FALSE
          /\ generatedImage' = Null
          /\ appState' = "mounted"]_vars

\* C9 witness: a request was answered without an image and the failure is reported
C9_Witness ==
  /\ status = ErrorStatus(GenerateFailedPrefix \o NoImageMessage)
  /\ ~isLoading
  /\ generatedImage = Null
  /\ genPending = EmptyBag

\* C10: without API_KEY the application still mounts, no generation request is ever issued, and
\* every accepted handleGenerate, on the generate and on the edit path, ends in the
\* missing-key error.
C10_MissingKeyFailsAtCall ==
  /\ [](env.API_KEY = "" => (appState # "crashed" /\ genPending = EmptyBag))
  /\ [][(env.API_KEY = "" /\ prompt # "" /\ RanGenerate) =>
          /\ last'.call # NoCall
          /\ last'.request = Null
          /\ status' = ErrorStatus(GenerateFailedPrefix \o KeyMissingMessage)]_vars

\* C10 witness: mounted without API_KEY, an edit has just failed with the missing-key error
C10_Witness ==
  /\ env.API_KEY = ""
  /\ appState = "mounted"
  /\ last.op = "handleGenerate"
  /\ last.call # NoCall
  /\ last.call[1].fn = "editImage"
  /\ last.request = Null
  /\ status = ErrorStatus(GenerateFailedPrefix \o KeyMissingMessage)

\* C11: when the HTTP exchange of a sendPhoto ends with a non-success status, handleSend ends
\* with the error status "Failed to send image to Telegram: " followed by the body's description
\* when it has one and by "Telegram API request failed" otherwise, and with isLoading false.
C11_SendErrorReported ==
  [][\A r \in BagToSet(sendPending), o \in SendOutcomes :
       (~o.rejected /\ ~o.ok /\ SendSettle(r, o)) =>
          /\ isLoading' = FALSE
          /\ o.description = "chat not found" =>
               status' = ErrorStatus("Failed to send image to Telegram: chat not found")
          /\ o.description = "" =>
               status' = ErrorStatus("Failed to send image to Telegram: Telegram API request failed")]_vars

\* C11 witness: a send was refused with a description and the failure carries it
C11_Witness ==
  /\ status = ErrorStatus(SendFailedPrefix \o "chat not found")
  /\ ~isLoading
  /\ generatedImage # Null
  /\ sendPending = EmptyBag

\* C12: a sendPhoto whose exchange succeeds ends with the success status and isLoading false,
\* and no step of handleSend, before or after its await, on success or on failure, changes the
\* artifact, the source image, the prompt or the credentials.
C12_SendKeepsInputs ==
  /\ [][\A r \in BagToSet(sendPending), o \in SendOutcomes :
          (~o.rejected /\ o.ok /\ SendSettle(r, o)) =>
             (status' = SuccessStatus(SentMessage) /\ isLoading' = FALSE)]_vars
  /\ [][(RanSend \/ sendPending' # sendPending) =>
          UNCHANGED <<generatedImage, uploadedImage, prompt, botToken, chatId>>]_vars

\* C12 witness: a send has succeeded and the artifact, with the credentials, is still there
C12_Witness ==
  /\ status = SuccessStatus(SentMessage)
  /\ ~isLoading
  /\ generatedImage # Null
  /\ botToken # ""
  /\ chatId # ""
  /\ sendPending = EmptyBag

\* the parts of all candidates of a response, in order
RECURSIVE AllParts(_)
AllParts(cs) == IF cs = <<>> THEN <<>> ELSE cs[1].parts \o AllParts(Tail(cs))

\* C13: extractImage returns the data URI of the first part, in order, that carries inline data,
\* and throws the no-image error exactly when no part of any candidate carries inline data.
C13_ExtractFirstInline ==
  last.op = "extractImage" =>
    LET parts == AllParts(last.call[1].args[1].candidates)
        hits == {i \in 1..Len(parts) : parts[i].kind = "inlineData"}
        result == last.request[1]
    IN  IF hits = {}
        THEN result.threw /\ result.error = NoImageMessage
        ELSE LET first == CHOOSE i \in hits : \A j \in hits : i <= j
             IN  /\ ~result.threw
                 /\ result.value = DataScheme \o parts[first].mimeType \o Base64Marker \o parts[first].data

\* C16: for every MIME type m and payload p, the artifact extractImage builds from (p, m) is
\* data:m;base64,p, the MIME type sendPhoto reads from it is m and the payload editImage
\* reads from it is p.
C16_DataUriRoundTrip ==
  last.op = "roundTrip" =>
    LET m == last.call[1].args[1]
        p == last.call[1].args[2]
        read == last.request[1]
    IN  /\ read.artifact = DataScheme \o m \o Base64Marker \o p
        /\ read.sentType = m
        /\ read.editData = p

\* C16 witness: a MIME type and a payload of full length, both with a slash and a plus, have
\* gone through the round trip
C16_Witness ==
  /\ last.op = "roundTrip"
  /\ last.call[1].args[1] = <<"i", "/", "+">>
  /\ last.call[1].args[2] = <<"/", "+">>
  /\ last.request[1].sentType = <<"i", "/", "+">>

\* C14: nothing is retried. Only a step of handleGenerate or handleSend adds a request, and one
\* at most; an accepted handleSend adds exactly one POST, an accepted handleGenerate at most one
\* generation request; the step that settles a request, on success or failure, removes that
\* request and adds none.
C14_NoRetry ==
  /\ [][InFlight' > InFlight =>
          /\ InFlight' = InFlight + 1
          /\ RanGenerate \/ RanSend
          /\ last'.request # Null]_vars
  /\ [][(RanSend /\ last'.call # NoCall) =>
          /\ sendPending' = sendPending (+) SetToBag({last'.request[1]})
          /\ genPending' = genPending]_vars
  /\ [][(RanGenerate /\ last'.call # NoCall) =>
          /\ BagCardinality(genPending') <= BagCardinality(genPending) + 1
          /\ sendPending' = sendPending]_vars
  /\ [][\A r \in BagToSet(sendPending), o \in SendOutcomes :
          SendSettle(r, o) =>
             (sendPending' = sendPending (-) SetToBag({r}) /\ genPending' = genPending)]_vars
  /\ [][\A r \in BagToSet(genPending), o \in GenOutcomes :
          GenerateSettle(r, o) =>
             (genPending' = genPending (-) SetToBag({r}) /\ sendPending' = sendPending)]_vars

\* C14 witness: a send has failed and no request is in flight
C14_Witness ==
  /\ status = ErrorStatus(SendFailedPrefix \o GenericSendMessage)
  /\ sendPending = EmptyBag
  /\ genPending = EmptyBag
  /\ ~isLoading
  /\ last = NoObservation

\* C15: in the rendered application at most one generation request and at most one POST are in
\* flight, never one of each, and isLoading is false only when none is.
C15_SingleFlight ==
  /\ BagCardinality(genPending) <= 1
  /\ BagCardinality(sendPending) <= 1
  /\ ~(genPending # EmptyBag /\ sendPending # EmptyBag)
  /\ ~isLoading => InFlight = 0

\* C15 witness: a POST is in flight while the prompt and the key would otherwise enable Generate
C15_Witness ==
  /\ BagCardinality(sendPending) = 1
  /\ isLoading
  /\ prompt # ""
  /\ ~isApiKeyMissing
  /\ generatedImage # Null

\* C17: when every remote call eventually completes, a handler that set isLoading gets to
\* clear it: the step that resumes handleGenerate or handleSend after its call, on success or
\* failure, leaves isLoading false, and isLoading never stays true forever.
C17_ReturnsToIdle ==
  /\ isLoading ~> ~isLoading
  /\ [][\A r \in BagToSet(genPending), o \in GenOutcomes :
          GenerateSettle(r, o) => ~isLoading']_vars
  /\ [][\A r \in BagToSet(sendPending), o \in SendOutcomes :
          SendSettle(r, o) => ~isLoading']_vars

\* C17 witness: back to idle after a generation that the service refused
C17_Witness ==
  /\ status = ErrorStatus(GenerateFailedPrefix \o ServiceErrorMessage)
  /\ ~isLoading
  /\ InFlight = 0
  /\ prompt # ""

\* C18: dismissing the status leaves it absent, dismissing again would leave the absent status
\* as it is, and a dismissal changes neither isLoading, the artifact, the source image, the
\* credentials nor the calls in flight.
C18_DismissIdempotent ==
  [][DismissStatus =>
       /\ status' = Null
       /\ Dismissed(status') = status'
       /\ UNCHANGED <<isLoading, generatedImage, uploadedImage, botToken, chatId, prompt,
                      showConfig, genPending, sendPending, readPending>>]_vars

\* C18 witness: a banner was dismissed while an artifact, a source image and a call in flight
\* were present
C18_Witness ==
  /\ last.op = "dismiss"
  /\ status = Null
  /\ uploadedImage # Null
  /\ isLoading
  /\ InFlight = 1

\* C19: when the read of an uploaded file fails, the status becomes an error, and the source
\* image held before, the artifact and isLoading stay as they were.
C19_ReadErrorCaught ==
  [][\A f \in BagToSet(readPending) :
       FileReadSettle(f, FALSE) =>
          /\ status' # Null
          /\ status'[1].type = "error"
          /\ UNCHANGED <<uploadedImage, generatedImage, isLoading>>]_vars

\* C19 witness: a read failed while a source image and an artifact were held
C19_Witness ==
  /\ status = ErrorStatus(ReadFailedMessage)
  /\ uploadedImage # Null
  /\ generatedImage # Null
  /\ readPending = EmptyBag
  /\ last = NoObservation

\* the request was built from the source image held: an edit request carrying its payload and
\* MIME type when there is one, a text-only request when there is none
BuiltFrom(request, source) ==
  IF source = Null
  THEN Len(request.parts) = 1 /\ request.parts[1].kind = "text"
  ELSE /\ Len(request.parts) = 2
       /\ request.parts[1] = EditPartsFor(source[1], "")[1]
       /\ request.parts[2].kind = "text"

\* C20: an artifact that is present was produced from the source image currently held. The
\* artifact stored when a generation settles comes from a request built from the source image
\* held at that moment (or from a text-only request when none is held), and a step that
\* changes the source image while an artifact is present removes the artifact.
C20_ArtifactFromHeldInputs ==
  /\ [][\A r \in BagToSet(genPending), o \in GenOutcomes :
          (GenerateSettle(r, o) /\ generatedImage' # Null) => BuiltFrom(r, uploadedImage')]_vars
  /\ [][(generatedImage # Null /\ uploadedImage' # uploadedImage) =>
          generatedImage' = Null]_vars

\* C21: once the application is mounted, the missing-key warning flag is set exactly when
\* generateImage / editImage would fail with the missing-key error of getAiClient, and a flag
\* that is set is never cleared by any later step.
C21_WarningAgreesWithKeyCheck ==
  /\ [](appState = "mounted" =>
          (isApiKeyMissing <=>
             (getAiClient(env).threw /\ getAiClient(env).error = KeyMissingMessage)))
  /\ [][isApiKeyMissing => isApiKeyMissing']_vars

====
